---- MODULE Spec2Model ----
(***************************************************************************)
(* State-machine model of the geocaching puzzle sketch (main.ino).         *)
(*                                                                         *)
(* One control-loop iteration is loop(): update_loc, update_buttons, the   *)
(* handler that handler_g points to, update_display.  pc is the position   *)
(* inside loop(); every function of the sketch is one action.              *)
(*                                                                         *)
(* Time.  The sketch compares millis() with two timestamps.                *)
(*  - next_check (update_buttons) is kept relative to the current time:    *)
(*    the model variable holds next_check - millis(), saturated at -1, so  *)
(*    "current_time > next_check" is "next_check < 0".  The millisecond    *)
(*    counter is taken not to wrap (it wraps after 49.7 days).             *)
(*  - last_update (update_loc) is kept as the outcome of the comparison    *)
(*    millis() < last_update + GPS_TIMEOUT: "recent" or "old"; "unset" is  *)
(*    the function-local static before the first call.  A recent           *)
(*    timestamp may turn old at any poll in which no usable fix arrives.   *)
(* The haversine computation is not evaluated: the rounded distance of a   *)
(* decoded fix is an input of update_loc.                                  *)
(***************************************************************************)
EXTENDS Integers, Sequences, FiniteSets, TLC

VARIABLES
    pc,             \* position in loop(): the call that runs next
    handler_g,      \* the handler the next "handle" step executes
    ran,            \* the handler executed by the latest "handle" step
    input_pos,      \* context::input_pos
    display_value,  \* context::display_value, indices 0..3
    distance,       \* context::distance
    current_goal,   \* context::current_goal
    final_goal,     \* context::final_goal
    goals,          \* context::goals[i].passwd, indices 0..9
    st,             \* context::st, the condition set
    was_down,       \* context::btn[i].was_down, indices 0..2
    next_check,     \* update_buttons' static, relative to millis()
    last_update,    \* update_loc's static, as "unset" / "recent" / "old"
    led             \* level written to LED_R

vars == <<pc, handler_g, ran, input_pos, display_value, distance, current_goal,
          final_goal, goals, st, was_down, next_check, last_update, led>>

----------------------------------------------------------------------------
(* Program constants *)

GPS_SERIAL_TIMEOUT == 100
BTN_DELAY == 100
DST_TOLERANCE == 20
BLANK_C == 255
DASH_C == 254
NumGoals == 10

(* Bounds of the model *)

\* The largest distance the formatting specification draws.
MaxDistance == 20000
\* The player stops counting a digit up at MaxDigit.
MaxDigit == 3
\* A poll that decodes a sentence may end Jitter ms before the serial
\* timeout; handler and display refresh may add Jitter ms to an iteration.
Jitter == 50

\* Distances a decoded fix may yield in the state-machine specification.
Distances == {DST_TOLERANCE, DST_TOLERANCE + 1}
\* Time between two consecutive reads of millis() by the pollers.
Elapsed == {GPS_SERIAL_TIMEOUT - Jitter, GPS_SERIAL_TIMEOUT, GPS_SERIAL_TIMEOUT + Jitter}

----------------------------------------------------------------------------
(* Helpers *)

\* C integer division and remainder truncate toward zero.
CDiv(a, b) == IF a >= 0 THEN a \div b ELSE -((-a) \div b)
CRem(a, b) == a - b * CDiv(a, b)

Disp(a, b, c, d) == (0 :> a) @@ (1 :> b) @@ (2 :> c) @@ (3 :> d)
Dashes == Disp(DASH_C, DASH_C, DASH_C, DASH_C)
Prompt == Disp(DASH_C, BLANK_C, BLANK_C, BLANK_C)

\* Later that lets the window end when the counter equals next_check
Later_inclusive(nc, ms) == IF nc - ms <= 0 THEN -1 ELSE nc - ms

\* next_check after `ms` milliseconds have passed.
Later(nc, ms) == IF nc - ms < 0 THEN -1 ELSE nc - ms

----------------------------------------------------------------------------
(* set_distance: the loop over the four digit positions *)

RECURSIVE set_distance_loop(_, _, _, _, _, _)
set_distance_loop(i, dig_enable, upper, lower, d, dv) ==
    IF i >= 4 THEN dv
    ELSE LET digit == CDiv(CRem(d, upper), lower)
             en == IF ~dig_enable THEN digit > 0 ELSE dig_enable
         IN set_distance_loop(i + 1, en, lower, CDiv(lower, 10), d,
                              [dv EXCEPT ![i] = IF en THEN digit ELSE BLANK_C])

\* set_distance with a digit enable that is not kept once set
RECURSIVE set_distance_loop_unlatched(_, _, _, _, _)
set_distance_loop_unlatched(i, upper, lower, d, dv) ==
    IF i >= 4 THEN dv
    ELSE LET digit == CDiv(CRem(d, upper), lower)
         IN set_distance_loop_unlatched(i + 1, lower, CDiv(lower, 10), d,
                              [dv EXCEPT ![i] = IF digit > 0 THEN digit ELSE BLANK_C])

set_distance_unlatched(d, dv) == set_distance_loop_unlatched(0, 10000, 1000, d, dv)

set_distance(d, dv) == set_distance_loop(0, FALSE, 10000, 1000, d, dv)

----------------------------------------------------------------------------
(* init_context and setup *)

init_context ==
    /\ input_pos = 0
    /\ display_value = Disp(-1, -1, -1, -1)
    /\ distance = -1
    /\ current_goal = 0
    /\ final_goal = -1
    /\ st = [satcon |-> FALSE, reached |-> FALSE, passwd |-> FALSE,
             fetched |-> FALSE, completed |-> FALSE, reset |-> FALSE,
             pos |-> FALSE, count |-> FALSE]
    /\ was_down = [i \in 0..2 |-> FALSE]
    \* ct_g is a global: the goal list starts zeroed
    /\ goals = [g \in 0..(NumGoals - 1) |-> [i \in 0..3 |-> 0]]

Init ==
    /\ init_context
    /\ handler_g = "main_handler"
    /\ ran = "none"
    /\ pc = "update_loc"
    /\ next_check = 0
    /\ last_update = "unset"
    /\ led = FALSE

----------------------------------------------------------------------------
(* update_loc *)

\* line 264: the goal's location counts as reached within the tolerance radius
reached_of(d) == d <= DST_TOLERANCE

\* last_update after one call: the static is initialised by the first call,
\* refreshed by a decoded sentence that reports 3 or more satellites, and
\* otherwise ages; `expired` says that GPS_TIMEOUT has now passed since it.
last_update_after(lu, good, expired) ==
    IF lu = "unset" \/ good THEN "recent"
    ELSE IF lu = "old" \/ expired THEN "old"
    ELSE "recent"


\* update_loc_fix that takes over a decoded fix without looking at fetched
update_loc_fix_unfetched(decoded, d) ==
    [distance |-> IF decoded THEN d ELSE distance,
     reached  |-> IF decoded THEN reached_of(d) ELSE st.reached]

\* lines 250-265: distance and reached after the poll window
\* decoded: gps.encode() returned true inside the poll window
\* d:       the rounded haversine distance of the decoded position
update_loc_fix(decoded, d) ==
    LET upd == decoded /\ st.fetched
    IN  [distance |-> IF upd THEN d ELSE distance,
         reached  |-> IF upd THEN reached_of(d) ELSE st.reached]

\* sats_ok: gps.satellites.value() >= 3
update_loc_with(decoded, d, sats_ok, elapsed, expired) ==
    LET fix == update_loc_fix(decoded, d)
        lu  == last_update_after(last_update, decoded /\ sats_ok, expired)
    IN  /\ distance' = fix.distance
        /\ st' = [st EXCEPT !.reached = fix.reached,
                            !.satcon = (lu = "recent")]
        /\ last_update' = lu
        /\ next_check' = Later(next_check, elapsed)

\* Inputs that the call does not read are drawn once, not in every value.
OneOfEach(decoded, d, sats_ok, elapsed, expired) ==
    /\ (decoded /\ st.fetched) \/ d = DST_TOLERANCE
    /\ decoded \/ ~sats_ok
    /\ next_check >= 0 \/ elapsed = GPS_SERIAL_TIMEOUT
    /\ (last_update = "recent" /\ ~(decoded /\ sats_ok)) \/ ~expired

update_loc ==
    /\ pc = "update_loc"
    /\ \E decoded \in BOOLEAN, d \in Distances, sats_ok \in BOOLEAN,
          elapsed \in Elapsed, expired \in BOOLEAN :
          \* without a decoded sentence the poll runs the whole window
          /\ decoded \/ elapsed >= GPS_SERIAL_TIMEOUT
          /\ OneOfEach(decoded, d, sats_ok, elapsed, expired)
          /\ update_loc_with(decoded, d, sats_ok, elapsed, expired)
    /\ pc' = "update_buttons"
    /\ UNCHANGED <<handler_g, ran, input_pos, display_value, current_goal,
                   final_goal, goals, was_down, led>>

----------------------------------------------------------------------------
(* update_buttons *)

\* poll_button that reports the level of a button that did not change
poll_button_level(b, i, now_down) ==
    IF now_down # b.was_down[i]
    THEN IF b.next_check < 0
         THEN [event      |-> [b.event EXCEPT ![i] = now_down],
               was_down   |-> [b.was_down EXCEPT ![i] = now_down],
               next_check |-> BTN_DELAY]
         ELSE [b EXCEPT !.event[i] = FALSE]
    ELSE [b EXCEPT !.event[i] = now_down]

\* One pass of the for loop, for button i with raw level now_down.
\* b = [event, was_down, next_check] is threaded through the three passes.
poll_button(b, i, now_down) ==
    IF now_down # b.was_down[i]
    THEN IF b.next_check < 0
         THEN [event      |-> [b.event EXCEPT ![i] = now_down],
               was_down   |-> [b.was_down EXCEPT ![i] = now_down],
               next_check |-> BTN_DELAY]
         ELSE [b EXCEPT !.event[i] = FALSE]
    ELSE [b EXCEPT !.event[i] = FALSE]

\* poll_buttons in which every button has a next_check of its own
poll_buttons_own_timers(levels) ==
    LET b0 == [event |-> (0 :> st.reset) @@ (1 :> st.pos) @@ (2 :> st.count),
               was_down |-> was_down, next_check |-> next_check]
        b1 == poll_button(b0, 0, levels[0])
        b2 == poll_button([b1 EXCEPT !.next_check = next_check], 1, levels[1])
    IN  poll_button([b2 EXCEPT !.next_check = next_check], 2, levels[2])

\* The three passes in the order of context::btn: reset, pos, count.
poll_buttons(levels) ==
    LET b0 == [event      |-> (0 :> st.reset) @@ (1 :> st.pos) @@ (2 :> st.count),
               was_down   |-> was_down,
               next_check |-> next_check]
        b1 == poll_button(b0, 0, levels[0])
        b2 == poll_button(b1, 1, levels[1])
    IN  poll_button(b2, 2, levels[2])

\* What the player does during code entry (a bound of the model, not of the
\* sketch): a digit is counted up to MaxDigit at most, and the cursor is
\* moved on only from a digit that is set as the goal asks.
PlayerMay(levels) ==
    handler_g = "subgoal_handler" =>
        LET cell == display_value[input_pos]
        IN  /\ (levels[2] /\ ~was_down[2]) => (cell = DASH_C \/ cell < MaxDigit)
            /\ (levels[1] /\ ~was_down[1]) => cell = goals[current_goal][input_pos]

\* levels[i]: !digitalRead(btn[i].pin), true when the button is down
update_buttons_with(levels) ==
    LET b == poll_buttons(levels)
    IN  /\ st' = [st EXCEPT !.reset = b.event[0], !.pos = b.event[1],
                            !.count = b.event[2]]
        /\ was_down' = b.was_down
        /\ next_check' = b.next_check

update_buttons ==
    /\ pc = "update_buttons"
    /\ \E levels \in [0..2 -> BOOLEAN] :
          /\ PlayerMay(levels)
          /\ update_buttons_with(levels)
    /\ pc' = "handle"
    /\ UNCHANGED <<handler_g, ran, input_pos, display_value, distance,
                   current_goal, final_goal, goals, last_update, led>>

----------------------------------------------------------------------------
(* main_handler *)

\* main_render that formats the distance whether or not goals are fetched
main_render_always(s, d, dv) == set_distance(d, dv)

\* main_render that leaves the display alone once goals are fetched
main_render_stale(s, d, dv) == IF ~s.fetched THEN Dashes ELSE dv

\* lines 337-344: what MAIN renders before it looks at the conditions
main_render(s, d, dv) == IF ~s.fetched THEN Dashes ELSE set_distance(d, dv)

\* main_next that looks at reached before it looks at reset
main_next_reached_first(s) ==
    IF ~s.reset /\ s.satcon /\ ~s.reached THEN "main_handler"
    ELSE IF s.reached THEN "subgoal_handler"
    ELSE IF s.reset THEN "fetch_handler"
    ELSE "satcon_handler"

\* lines 346-363: the handler MAIN returns
main_next(s) ==
    IF ~s.reset /\ s.satcon /\ ~s.reached THEN "main_handler"
    ELSE IF s.reset THEN "fetch_handler"
    ELSE IF s.reached THEN "subgoal_handler"
    ELSE "satcon_handler"

main_handler ==
    /\ pc = "handle" /\ handler_g = "main_handler"
    /\ LET next == main_next(st)
       IN  /\ handler_g' = next
           /\ IF next = "subgoal_handler"
              THEN display_value' = Prompt /\ input_pos' = 0
              ELSE /\ display_value' = main_render(st, distance, display_value)
                   /\ input_pos' = input_pos
    /\ ran' = "main_handler" /\ pc' = "update_loc"
    /\ UNCHANGED <<distance, current_goal, final_goal, goals, st, was_down,
                   next_check, last_update, led>>

----------------------------------------------------------------------------
(* subgoal_handler *)

\* move_cursor that leaves a dash behind
move_cursor_keeps_dash(e) ==
    LET p == (e.pos + 1) % 4
    IN  [pos |-> p, dv |-> [e.dv EXCEPT ![p] = DASH_C]]

\* lines 372-378: the cursor-move edge; e = [pos, dv] is cursor and display
move_cursor(e) ==
    LET left == IF e.dv[e.pos] = DASH_C THEN [e.dv EXCEPT ![e.pos] = BLANK_C]
                ELSE e.dv
        p    == (e.pos + 1) % 4
    IN  [pos |-> p, dv |-> [left EXCEPT ![p] = DASH_C]]

\* lines 379-385: the increment edge
count_up(e) ==
    [e EXCEPT !.dv[e.pos] = IF @ = DASH_C THEN 0 ELSE (@ + 1) % 16]

\* subgoal_edit that counts before it moves the cursor
subgoal_edit_count_first(s, e) ==
    LET e1 == IF s.count THEN count_up(e) ELSE e
    IN  IF s.pos THEN move_cursor(e1) ELSE e1

\* lines 372-385: both edges, the cursor move first
subgoal_edit(s, e) ==
    LET e1 == IF s.pos THEN move_cursor(e) ELSE e
    IN  IF s.count THEN count_up(e1) ELSE e1

\* passwd_match that is content with three matching symbols
passwd_match_three(dv, pw) == Cardinality({i \in 0..3 : dv[i] = pw[i]}) >= 3

\* lines 387-394: all four symbols equal the goal's password
passwd_match(dv, pw) == Cardinality({i \in 0..3 : dv[i] = pw[i]}) = 4

\* subgoal_next that looks at satcon before it looks at passwd
subgoal_next_satcon_first(s) ==
    IF ~s.reset /\ ~s.passwd /\ s.satcon /\ s.reached THEN "subgoal_handler"
    ELSE IF s.reset THEN "fetch_handler"
    ELSE IF ~s.satcon THEN "satcon_handler"
    ELSE IF s.passwd THEN "next_goal_handler"
    ELSE "main_handler"

\* lines 396-410: the handler SUBGOAL returns, s.passwd already recomputed
subgoal_next(s) ==
    IF ~s.reset /\ ~s.passwd /\ s.satcon /\ s.reached THEN "subgoal_handler"
    ELSE IF s.reset THEN "fetch_handler"
    ELSE IF s.passwd THEN "next_goal_handler"
    ELSE IF ~s.satcon THEN "satcon_handler"
    ELSE "main_handler"

subgoal_handler ==
    /\ pc = "handle" /\ handler_g = "subgoal_handler"
    /\ LET e  == subgoal_edit(st, [pos |-> input_pos, dv |-> display_value])
           s1 == [st EXCEPT !.passwd = passwd_match(e.dv, goals[current_goal])]
       IN  /\ input_pos' = e.pos
           /\ display_value' = e.dv
           /\ st' = s1
           /\ handler_g' = subgoal_next(s1)
    /\ ran' = "subgoal_handler" /\ pc' = "update_loc"
    /\ UNCHANGED <<distance, current_goal, final_goal, goals, was_down,
                   next_check, last_update, led>>

----------------------------------------------------------------------------
(* fetch_handler *)

\* lines 441-446: the handler FETCH returns
fetch_next(s) == IF s.reset \/ ~s.fetched THEN "fetch_handler" ELSE "main_handler"

\* fetch_handler that does not clear fetched before it polls
fetch_handler_with_stale(hit, elapsed) ==
    LET s1 == [st EXCEPT !.fetched = @ \/ hit]
    IN  /\ st' = s1
        /\ IF hit
           THEN /\ goals' = [goals EXCEPT ![0] = [i \in 0..3 |-> i]]
                /\ current_goal' = 0
                /\ final_goal' = 0
           ELSE UNCHANGED <<goals, current_goal, final_goal>>
        /\ handler_g' = fetch_next(s1)
        /\ next_check' = Later(next_check, elapsed)

\* fetched_indices of a fetch that delivers two goals
fetched_indices_two == [current_goal |-> 0, final_goal |-> 1]

\* lines 432-433: the goal indices a successful fetch installs
fetched_indices == [current_goal |-> 0, final_goal |-> 0]

\* hit: gps.encode() returned true inside the poll window of the handler
fetch_handler_with(hit, elapsed) ==
    LET s1 == [st EXCEPT !.fetched = hit]
    IN  /\ st' = s1
        /\ IF hit
           THEN /\ goals' = [goals EXCEPT ![0] = [i \in 0..3 |-> i]]
                /\ current_goal' = fetched_indices.current_goal
                /\ final_goal' = fetched_indices.final_goal
           ELSE UNCHANGED <<goals, current_goal, final_goal>>
        /\ handler_g' = fetch_next(s1)
        /\ next_check' = Later(next_check, elapsed)

fetch_handler ==
    /\ pc = "handle" /\ handler_g = "fetch_handler"
    /\ \E hit \in BOOLEAN, elapsed \in Elapsed :
          /\ hit \/ elapsed >= GPS_SERIAL_TIMEOUT
          /\ next_check >= 0 \/ elapsed = GPS_SERIAL_TIMEOUT
          /\ fetch_handler_with(hit, elapsed)
    /\ ran' = "fetch_handler" /\ pc' = "update_loc"
    /\ UNCHANGED <<input_pos, display_value, distance, was_down, last_update, led>>

----------------------------------------------------------------------------
(* next_goal_handler, complete_handler, satcon_handler *)

\* all_completed that compares with the number of goals
all_completed_by_count(cur, fin) == cur = fin + 1

\* line 454
all_completed(cur, fin) == cur = fin

next_goal_handler ==
    /\ pc = "handle" /\ handler_g = "next_goal_handler"
    /\ LET done == all_completed(current_goal, final_goal)
       IN  /\ st' = [st EXCEPT !.completed = done]
           /\ IF done
              THEN /\ display_value' = Dashes
                   /\ current_goal' = current_goal
                   /\ handler_g' = "complete_handler"
              ELSE /\ display_value' = display_value
                   /\ current_goal' = current_goal + 1
                   /\ handler_g' = "main_handler"
    /\ ran' = "next_goal_handler" /\ pc' = "update_loc"
    /\ UNCHANGED <<input_pos, distance, final_goal, goals, was_down, next_check,
                   last_update, led>>

\* complete_next that also leaves when positioning is lost
complete_next_needs_satcon(s) ==
    IF ~s.reset /\ s.satcon THEN "complete_handler" ELSE "fetch_handler"

\* lines 476-483: the handler COMPLETE returns
complete_next(s) == IF ~s.reset THEN "complete_handler" ELSE "fetch_handler"

complete_handler ==
    /\ pc = "handle" /\ handler_g = "complete_handler"
    /\ handler_g' = complete_next(st)
    /\ st' = IF ~st.reset THEN st ELSE [st EXCEPT !.completed = FALSE]
    /\ ran' = "complete_handler" /\ pc' = "update_loc"
    /\ UNCHANGED <<input_pos, display_value, distance, current_goal, final_goal,
                   goals, was_down, next_check, last_update, led>>

\* satcon_next that goes back to MAIN after one iteration
satcon_next_once(s) == "main_handler"

\* lines 493-499: the handler SATCON returns
satcon_next(s) == IF ~s.satcon THEN "satcon_handler" ELSE "main_handler"

\* satcon_led that never switches the light off
satcon_led_stuck(s) == TRUE

\* lines 491-496: the level LED_R is left at
satcon_led(s) == IF ~s.satcon THEN TRUE ELSE FALSE

satcon_handler ==
    /\ pc = "handle" /\ handler_g = "satcon_handler"
    /\ led' = satcon_led(st)
    /\ handler_g' = satcon_next(st)
    /\ ran' = "satcon_handler" /\ pc' = "update_loc"
    /\ UNCHANGED <<input_pos, display_value, distance, current_goal, final_goal,
                   goals, st, was_down, next_check, last_update>>

----------------------------------------------------------------------------
(* loop *)

Next ==
    \/ update_loc
    \/ update_buttons
    \/ main_handler
    \/ subgoal_handler
    \/ fetch_handler
    \/ next_goal_handler
    \/ complete_handler
    \/ satcon_handler

Spec == Init /\ [][Next]_vars

----------------------------------------------------------------------------
(* set_distance on its own: main_handler stands at its call of set_distance  *)
(* (line 343) after a reset, a successful fetch and a decoded fix that put   *)
(* the goal at distance d; the reset button is still held.                   *)

InitFormat ==
    /\ pc = "set_distance"
    /\ handler_g = "main_handler"
    /\ ran = "fetch_handler"
    /\ input_pos = 0
    /\ display_value = Dashes
    /\ distance \in 0..MaxDistance
    /\ current_goal = 0
    /\ final_goal = 0
    /\ goals = [g \in 0..(NumGoals - 1) |-> [i \in 0..3 |-> IF g = 0 THEN i ELSE 0]]
    /\ st = [satcon |-> TRUE, reached |-> reached_of(distance), passwd |-> FALSE,
             fetched |-> TRUE, completed |-> FALSE, reset |-> FALSE,
             pos |-> FALSE, count |-> FALSE]
    /\ was_down = (0 :> TRUE) @@ (1 :> FALSE) @@ (2 :> FALSE)
    /\ next_check = -1
    /\ last_update = "recent"
    /\ led = FALSE

format_distance ==
    /\ pc = "set_distance"
    /\ display_value' = set_distance(distance, display_value)
    /\ pc' = "formatted"
    /\ UNCHANGED <<handler_g, ran, input_pos, distance, current_goal, final_goal,
                   goals, st, was_down, next_check, last_update, led>>

NextFormat == format_distance

SpecFormat == InitFormat /\ [][NextFormat]_vars

----------------------------------------------------------------------------
(* Properties of the state machine, checked under Spec *)

\* The iteration in which handler h ran has just ended: the conditions in st
\* are those h saw, but for the ones h itself writes.
JustRan(h) == pc = "update_loc" /\ ran = h

\* C1: MAIN's next state, first match wins: reset -> FETCH; else reached ->
\* SUBGOAL with the cursor at 0 and the display [dash, blank, blank, blank];
\* else positioning lost -> SATCON; else MAIN.
C1_MainRule ==
    JustRan("main_handler") =>
        IF st.reset THEN handler_g = "fetch_handler"
        ELSE IF st.reached
             THEN /\ handler_g = "subgoal_handler"
                  /\ input_pos = 0
                  /\ display_value = Prompt
        ELSE IF ~st.satcon THEN handler_g = "satcon_handler"
        ELSE handler_g = "main_handler"

\* MAIN ran with reset, reached and lost positioning all at once: reset won.
C1_Witness ==
    /\ JustRan("main_handler")
    /\ st.reset /\ st.reached /\ ~st.satcon
    /\ handler_g = "fetch_handler"

\* C2: SUBGOAL's next state, first match wins, on the code_correct flag that
\* the same iteration recomputed: reset -> FETCH; else code correct ->
\* NEXT_GOAL; else positioning lost -> SATCON; else still reached -> SUBGOAL;
\* else MAIN.
C2_SubgoalRule ==
    JustRan("subgoal_handler") =>
        /\ st.passwd = (\A i \in 0..3 : display_value[i] = goals[current_goal][i])
        /\ handler_g = IF st.reset THEN "fetch_handler"
                       ELSE IF st.passwd THEN "next_goal_handler"
                       ELSE IF ~st.satcon THEN "satcon_handler"
                       ELSE IF st.reached THEN "subgoal_handler"
                       ELSE "main_handler"

\* The code became correct in an iteration in which positioning was lost:
\* the correct code won.
C2_Witness ==
    /\ JustRan("subgoal_handler")
    /\ ~st.reset /\ st.passwd /\ ~st.satcon
    /\ handler_g = "next_goal_handler"

\* C3: a FETCH iteration whose attempt yields a goal while reset is not
\* pressed ends with goals_fetched true, both goal indices 0 and next state
\* MAIN; any other FETCH iteration ends with next state FETCH, and one whose
\* attempt yielded nothing ends with goals_fetched false.
C3_FetchRetry ==
    [][\A hit \in BOOLEAN, elapsed \in Elapsed :
         (pc = "handle" /\ handler_g = "fetch_handler"
            /\ fetch_handler_with(hit, elapsed)) =>
         IF hit /\ ~st.reset
         THEN /\ st'.fetched
              /\ current_goal' = 0 /\ final_goal' = 0
              /\ handler_g' = "main_handler"
         ELSE /\ handler_g' = "fetch_handler"
              /\ (~hit => ~st'.fetched)]_vars

\* FETCH ran, obtained a goal without reset and handed over to MAIN.
C3_Witness ==
    /\ JustRan("fetch_handler")
    /\ st.fetched /\ ~st.reset
    /\ current_goal = 0 /\ final_goal = 0
    /\ handler_g = "main_handler"

\* C4: NEXT_GOAL sets all_completed to (current index = final index); if
\* true the display becomes four dashes, the index stays and COMPLETE is
\* next; otherwise the index grows by 1, the display stays and MAIN is next.
C4_NextGoal ==
    [][(pc = "handle" /\ handler_g = "next_goal_handler") =>
         /\ st'.completed = (current_goal = final_goal)
         /\ IF current_goal = final_goal
            THEN /\ display_value' = Dashes
                 /\ current_goal' = current_goal
                 /\ handler_g' = "complete_handler"
            ELSE /\ display_value' = display_value
                 /\ current_goal' = current_goal + 1
                 /\ handler_g' = "main_handler"]_vars

\* NEXT_GOAL ran on the final goal.
C4_Witness ==
    /\ JustRan("next_goal_handler")
    /\ current_goal = final_goal /\ st.completed
    /\ display_value = Dashes
    /\ handler_g = "complete_handler"

\* C5: while the machine is in COMPLETE, all_completed is true and the
\* display is four dashes; every step without a reset press keeps it there,
\* whatever the polls deliver, and the COMPLETE iteration that sees reset
\* clears all_completed and goes to FETCH.
C5_CompleteAbsorbing ==
    [][handler_g = "complete_handler" =>
         /\ st.completed /\ display_value = Dashes
         /\ IF pc = "handle" /\ st.reset
            THEN handler_g' = "fetch_handler" /\ ~st'.completed
            ELSE /\ handler_g' = "complete_handler"
                 /\ st'.completed /\ display_value' = Dashes]_vars

\* COMPLETE ran with positioning lost and the count button just pressed,
\* and stayed.
C5_Witness ==
    /\ JustRan("complete_handler")
    /\ ~st.reset /\ ~st.satcon /\ st.count
    /\ handler_g = "complete_handler"

\* C6: MAIN without reset and not reached goes to SATCON when positioning is
\* lost; a SATCON iteration with positioning lost stays in SATCON with the
\* light on, the polls leave state and light alone, and the SATCON
\* iteration that sees positioning again clears the light and goes to MAIN.
C6_SatconScenario ==
    [][/\ (pc = "handle" /\ handler_g = "main_handler"
             /\ ~st.reset /\ ~st.reached /\ ~st.satcon)
          => handler_g' = "satcon_handler"
       /\ (pc = "handle" /\ handler_g = "satcon_handler")
          => IF ~st.satcon THEN handler_g' = "satcon_handler" /\ led'
             ELSE handler_g' = "main_handler" /\ ~led'
       /\ (pc # "handle" /\ handler_g = "satcon_handler")
          => handler_g' = "satcon_handler" /\ led' = led]_vars

\* SATCON ran with the light on, saw positioning again and left for MAIN
\* with the light off.
C6_Witness ==
    /\ JustRan("satcon_handler")
    /\ st.satcon /\ ~led
    /\ handler_g = "main_handler"

\* C7 as stated: MAIN with goals_fetched false renders four dashes and stays
\* in MAIN unless reset is pressed, for every value of positioning_ok.
C7_StaysMainUnlessReset ==
    (JustRan("main_handler") /\ ~st.fetched) =>
        /\ display_value = Dashes
        /\ handler_g = IF st.reset THEN "fetch_handler" ELSE "main_handler"

\* C7 amended: MAIN with goals_fetched false renders four dashes; the next
\* state is FETCH on reset, else SATCON when positioning is lost, else MAIN.
C7_DashesUnfetched ==
    (JustRan("main_handler") /\ ~st.fetched) =>
        /\ display_value = Dashes
        /\ handler_g = IF st.reset THEN "fetch_handler"
                       ELSE IF ~st.satcon THEN "satcon_handler"
                       ELSE "main_handler"

\* MAIN ran before any fetch with positioning lost: four dashes, SATCON next.
C7_Witness ==
    /\ JustRan("main_handler")
    /\ ~st.fetched /\ ~st.reset /\ ~st.satcon
    /\ display_value = Dashes
    /\ handler_g = "satcon_handler"

----------------------------------------------------------------------------
(* Properties of set_distance, checked under SpecFormat *)

Pow10(k) == IF k = 0 THEN 1 ELSE IF k = 1 THEN 10 ELSE IF k = 2 THEN 100 ELSE 1000

\* The decimal digit of d shown at display position i (0 = thousands).
DecDigit(d, i) == (d \div Pow10(3 - i)) % 10

\* Leading positions blank, every position from the first non-zero digit on
\* shows its digit.
DecimalLayout(d) ==
    [i \in 0..3 |-> IF \A j \in 0..i : DecDigit(d, j) = 0 THEN BLANK_C
                    ELSE DecDigit(d, i)]

\* The non-blank symbols read as a decimal number.
RECURSIVE ReadFrom(_, _, _)
ReadFrom(dv, i, acc) ==
    IF i > 3 THEN acc
    ELSE ReadFrom(dv, i + 1, IF dv[i] = BLANK_C THEN acc ELSE 10 * acc + dv[i])

ReadBack(dv) == ReadFrom(dv, 0, 0)

\* C8: for distance 0 the routine produces [blank, blank, blank, 0].
C8_ZeroShowsUnits ==
    (pc = "formatted" /\ distance = 0) =>
        display_value = Disp(BLANK_C, BLANK_C, BLANK_C, 0)

\* C9: for 1 <= d <= 9999 the routine produces the decimal digits of d with
\* the positions before the first non-zero digit blank, and the non-blank
\* symbols read back as d.
C9_DecimalDigits ==
    (pc = "formatted" /\ 1 <= distance /\ distance <= 9999) =>
        /\ display_value = DecimalLayout(distance)
        /\ ReadBack(display_value) = distance

\* 7000 was formatted with its inner zeros shown.
C9_Witness ==
    /\ pc = "formatted" /\ distance = 7000
    /\ display_value = Disp(7, 0, 0, 0)

\* C10: for d >= 10000 the routine does not produce the symbols it produces
\* for d mod 10000.
C10_NoSilentWrap ==
    (pc = "formatted" /\ distance >= 10000) =>
        display_value # set_distance(distance % 10000, display_value)

----------------------------------------------------------------------------
(* Properties of the debounce step, checked under Spec *)

Levels == [0..2 -> BOOLEAN]

\* The edge flag of button i in the condition set s.
Flag(s, i) == IF i = 0 THEN s.reset ELSE IF i = 1 THEN s.pos ELSE s.count

\* C11: every poll writes the three edge flags; a flag is set only by an
\* accepted change from released to pressed, never by a release and never for
\* a button whose level equals the recorded one (held or still released), and
\* a flag that was set by one poll is cleared by the next.
C11_OneShotFlags ==
    [][pc = "update_buttons" =>
         \A levels \in Levels :
            update_buttons_with(levels) =>
            \A i \in 0..2 :
               /\ Flag(st', i) => (levels[i] /\ ~was_down[i] /\ was_down'[i])
               /\ Flag(st, i) => ~Flag(st', i)
               /\ levels[i] = was_down[i] =>
                     (~Flag(st', i) /\ was_down'[i] = was_down[i])
               /\ was_down'[i] # was_down[i] => was_down'[i] = levels[i]]_vars

\* A press of the count button was accepted and its flag reached the handler.
C11_Witness ==
    /\ pc = "handle"
    /\ st.count /\ was_down[2]
    /\ ~st.reset /\ ~st.pos

----------------------------------------------------------------------------
(* Properties of SUBGOAL's code check, checked under Spec *)

\* The symbols of the display that are no hex digit.
Unfilled == {i \in 0..3 : display_value[i] \in {BLANK_C, DASH_C}}

\* The positions at which the display differs from the current goal's code.
Mismatches == {i \in 0..3 : display_value[i] # goals[current_goal][i]}

\* C13: after every SUBGOAL iteration code_correct is true exactly when no
\* displayed symbol differs from the current goal's code; a display holding a
\* blank or a dash never yields code_correct; and code_correct without
\* reset_pressed has NEXT_GOAL as next state.
C13_CodeCheck ==
    JustRan("subgoal_handler") =>
        /\ st.passwd <=> Mismatches = {}
        /\ Unfilled # {} => ~st.passwd
        /\ (st.passwd /\ ~st.reset) => handler_g = "next_goal_handler"

\* The last digit was just counted up to the code's value: accepted.
C13_Witness ==
    /\ JustRan("subgoal_handler")
    /\ display_value = Disp(0, 1, 2, 3)
    /\ st.count /\ st.passwd /\ ~st.reset
    /\ handler_g = "next_goal_handler"

\* Three symbols right and a dash at the cursor: not accepted.
C13_WitnessPartial ==
    /\ JustRan("subgoal_handler")
    /\ Cardinality(Mismatches) = 1 /\ Unfilled # {}
    /\ ~st.passwd

\* C14: the code is accepted (SUBGOAL -> NEXT_GOAL) only in an iteration in
\* which location_reached is true for the current goal.
C14_SolvedOnlyAtLocation ==
    (JustRan("subgoal_handler") /\ handler_g = "next_goal_handler")
        => st.reached

----------------------------------------------------------------------------
(* What the player is told, after every iteration of loop(), under Spec *)

\* An iteration of loop() has just ended, whichever handler it ran.
IterationDone == pc = "update_loc" /\ ran # "none"

\* C15: after any iteration with positioning_ok false or goals_fetched
\* false, the display shows four dashes, whatever the state.
C15_DashesWithoutSignalOrGoals ==
    (IterationDone /\ (~st.satcon \/ ~st.fetched)) => display_value = Dashes

----------------------------------------------------------------------------
(* The indicator light *)

\* loop() never stops: some step of the machine is always taken.
SpecFair == Spec /\ WF_vars(Next)

\* C17: from any reachable state, if positioning_ok becomes false and stays
\* false, then eventually the indicator light is on.
C17_LedWhenConnectionLost == []([]~st.satcon => <>led)

----------------------------------------------------------------------------
(* The reset button *)

\* C18: in every state, an iteration in which reset_pressed is true has
\* FETCH as its next state.
C18_ResetFromAnywhere ==
    (IterationDone /\ st.reset) => handler_g = "fetch_handler"

----------------------------------------------------------------------------
(* The positioning refresh, checked under Spec *)

\* C19: while goals_fetched is false the positioning refresh leaves the stored
\* distance and location_reached unchanged, fix or no fix, and of the
\* conditions writes positioning_ok only; with goals fetched and a fix decoded
\* it stores the new distance and location_reached becomes true exactly when
\* that distance is at most DST_TOLERANCE.
C19_RefreshWithoutGoals ==
    [][pc = "update_loc" =>
         /\ ~st.fetched => st' = [st EXCEPT !.satcon = st'.satcon]
         /\ \A decoded \in BOOLEAN, d \in Distances :
               LET fix == update_loc_fix(decoded, d)
               IN  (distance' = fix.distance /\ st'.reached = fix.reached) =>
                     /\ ~st.fetched =>
                           (distance' = distance /\ st'.reached = st.reached)
                     /\ (st.fetched /\ decoded) =>
                           /\ distance' = d
                           /\ st'.reached <=> d <= DST_TOLERANCE]_vars

\* SATCON without goals: this refresh decoded a usable fix (positioning_ok
\* came back) and neither computed a distance nor set location_reached.
C19_Witness ==
    /\ pc = "update_buttons" /\ handler_g = "satcon_handler"
    /\ ~st.fetched /\ st.satcon
    /\ distance = -1 /\ ~st.reached

----------------------------------------------------------------------------
(* Code entry: one SUBGOAL iteration from every shape of display that code
   entry produces, with every combination of the two edge flags.  Both flags
   are set in one poll when current_time + BTN_DELAY wraps around. *)

\* What the cursor position holds: the dash, or a digit counted up to.
CursorSymbols == {DASH_C} \cup 0..15

\* What the other positions hold: blank, or a digit left behind.
OtherSymbols == {BLANK_C, 0, 15}

InitEdit ==
    /\ handler_g = "subgoal_handler"
    /\ ran = "none"
    /\ pc = "handle"
    /\ input_pos \in 0..3
    /\ display_value \in [0..3 -> CursorSymbols \cup OtherSymbols]
    /\ display_value[input_pos] \in CursorSymbols
    /\ \A i \in 0..3 \ {input_pos} : display_value[i] \in OtherSymbols
    /\ distance = DST_TOLERANCE
    /\ current_goal = 0
    /\ final_goal = 0
    /\ goals = [g \in 0..(NumGoals - 1) |-> [i \in 0..3 |-> IF g = 0 THEN i ELSE 0]]
    /\ \E pos \in BOOLEAN, count \in BOOLEAN :
          st = [satcon |-> TRUE, reached |-> TRUE, passwd |-> FALSE,
                fetched |-> TRUE, completed |-> FALSE, reset |-> FALSE,
                pos |-> pos, count |-> count]
    /\ was_down = [i \in 0..2 |-> IF i = 1 THEN st.pos
                                  ELSE IF i = 2 THEN st.count ELSE FALSE]
    /\ next_check = BTN_DELAY
    /\ last_update = "recent"
    /\ led = FALSE

NextEdit == subgoal_handler

SpecEdit == InitEdit /\ [][NextEdit]_vars

\* The display after the handler, position by position: c and n are the
\* cursor before and the position after it, at_c and at_n what they hold
\* afterwards; every other position is as before.
EditedTo(c, n, at_c, at_n) ==
    /\ display_value'[c] = at_c
    /\ n # c => display_value'[n] = at_n
    /\ \A i \in 0..3 \ {c, n} : display_value'[i] = display_value[i]

\* C20: cursor_pressed turns a dash at the cursor into blank (a digit is
\* kept), moves the cursor to (cursor + 1) mod 4 and writes a dash there;
\* increment_pressed turns a dash at the cursor into 0 and any other value v
\* into (v + 1) mod 16; with both flags the cursor moves first and the
\* increment leaves 0 at the new cursor position.
C20_Editing ==
    [][pc = "handle" =>
         LET c    == input_pos
             n    == (c + 1) % 4
             v    == display_value[c]
             left == IF v = DASH_C THEN BLANK_C ELSE v
         IN  /\ (st.pos /\ ~st.count) =>
                   (input_pos' = n /\ EditedTo(c, n, left, DASH_C))
             /\ (~st.pos /\ st.count) =>
                   /\ input_pos' = c
                   /\ EditedTo(c, c, IF v = DASH_C THEN 0 ELSE (v + 1) % 16, 0)
             /\ (st.pos /\ st.count) =>
                   (input_pos' = n /\ EditedTo(c, n, left, 0))
             /\ (~st.pos /\ ~st.count) =>
                   (input_pos' = c /\ display_value' = display_value)]_vars

\* Both flags with the cursor on the last position, which held a digit: the
\* cursor wrapped to position 0, the digit stayed, position 0 was overwritten
\* with the dash and counted up to 0.
C20_Witness ==
    /\ JustRan("subgoal_handler")
    /\ st.pos /\ st.count
    /\ input_pos = 0 /\ display_value[0] = 0
    /\ display_value[3] = 15 /\ display_value[1] = 15

----------------------------------------------------------------------------
(* Invariants of the whole machine, checked under Spec *)

\* C21: the indicator light is off initially, and whenever it is on the
\* machine's next state is SATCON: it is never on while the machine is in
\* MAIN, FETCH, SUBGOAL, NEXT_GOAL or COMPLETE.
C21_LedOnlyInSatcon ==
    /\ ran = "none" => ~led
    /\ led => handler_g = "satcon_handler"

\* A SATCON iteration without positioning ended with the light on and SATCON
\* as next state.
C21_Witness ==
    /\ JustRan("satcon_handler")
    /\ led /\ ~st.satcon
    /\ handler_g = "satcon_handler"

\* The buttons whose edge flag is set in the condition set s.
Flagged(s) == {i \in 0..2 : Flag(s, i)}

\* C22: the three buttons share one next_check, so a poll accepts at most one
\* level change among them and at most one edge flag is true when the
\* handler runs; of two buttons newly pressed in one eligible poll the first
\* is emitted and the second is neither emitted nor recorded as down.
C22_OneEventPerIteration ==
    [][pc = "update_buttons" =>
         /\ Cardinality({i \in 0..2 : was_down'[i] # was_down[i]}) <= 1
         /\ Cardinality(Flagged(st')) <= 1
         /\ \A levels \in Levels :
               update_buttons_with(levels) =>
               \A i \in 0..2, j \in 0..2 :
                  (/\ i < j /\ next_check < 0
                   /\ levels[i] /\ ~was_down[i]
                   /\ levels[j] /\ ~was_down[j]) =>
                     (~Flag(st', j) /\ ~was_down'[j])]_vars

\* Reset and the cursor button are both recorded as down and only the
\* cursor button's flag is set: the two presses were accepted by different
\* polls.
C22_Witness ==
    /\ pc = "handle"
    /\ was_down[0] /\ was_down[1] /\ ~was_down[2]
    /\ Flagged(st) = {1}

----------------------------------------------------------------------------
(* Code entry from its start: the machine stands at the goal with a good
   fix in every iteration, MAIN enters SUBGOAL and the player edits the code
   with the cursor and count buttons.  The player moves the cursor on only
   from a dash, a 0 or a 15 (a bound of the model, not of the sketch), so
   the goal's code is never completed and the machine stays in SUBGOAL. *)

\* MAIN has just shown a distance outside the tolerance radius.
InitCode ==
    /\ handler_g = "main_handler"
    /\ ran = "main_handler"
    /\ pc = "update_loc"
    /\ input_pos = 0
    /\ display_value = set_distance(DST_TOLERANCE + 1, Dashes)
    /\ distance = DST_TOLERANCE + 1
    /\ current_goal = 0
    /\ final_goal = 0
    /\ goals = [g \in 0..(NumGoals - 1) |-> [i \in 0..3 |-> IF g = 0 THEN i ELSE 0]]
    /\ st = [satcon |-> TRUE, reached |-> FALSE, passwd |-> FALSE,
             fetched |-> TRUE, completed |-> FALSE, reset |-> FALSE,
             pos |-> FALSE, count |-> FALSE]
    /\ was_down = [i \in 0..2 |-> FALSE]
    /\ next_check = -1
    /\ last_update = "recent"
    /\ led = FALSE

\* update_loc decodes a fix at the goal, with 3 or more satellites, and the
\* iteration takes longer than BTN_DELAY.
update_loc_at_goal ==
    /\ pc = "update_loc"
    /\ update_loc_with(TRUE, DST_TOLERANCE, TRUE, GPS_SERIAL_TIMEOUT + Jitter, FALSE)
    /\ pc' = "update_buttons"
    /\ UNCHANGED <<handler_g, ran, input_pos, display_value, current_goal,
                   final_goal, goals, was_down, led>>

PlayerEdits(levels) ==
    /\ ~levels[0]
    /\ (handler_g = "subgoal_handler" /\ levels[1] /\ ~was_down[1]) =>
          display_value[input_pos] \in {DASH_C} \cup OtherSymbols

update_buttons_code ==
    /\ pc = "update_buttons"
    /\ \E levels \in Levels :
          /\ PlayerEdits(levels)
          /\ update_buttons_with(levels)
    /\ pc' = "handle"
    /\ UNCHANGED <<handler_g, ran, input_pos, display_value, distance,
                   current_goal, final_goal, goals, last_update, led>>

NextCode ==
    \/ update_loc_at_goal
    \/ update_buttons_code
    \/ main_handler
    \/ subgoal_handler

SpecCode == InitCode /\ [][NextCode]_vars

\* The shape of the display during code entry.
CodeEntryShape ==
    /\ input_pos \in 0..3
    /\ display_value[input_pos] \in {DASH_C} \cup 0..15
    /\ \A i \in 0..3 \ {input_pos} : display_value[i] \in {BLANK_C} \cup 0..15

\* C23: whenever the machine is in SUBGOAL (the next state is SUBGOAL, or a
\* SUBGOAL iteration has just run) the cursor is in 0..3, the cursor position
\* holds a dash or a digit 0..15, never blank, and every other position holds
\* blank or a digit 0..15, never a dash.
C23_CursorAndDash ==
    (handler_g = "subgoal_handler" \/ JustRan("subgoal_handler"))
        => CodeEntryShape

\* The cursor went round once: a 15 and a 0 were left behind, position 2 was
\* skipped and is blank, and the dash is back on position 0.
C23_Witness ==
    /\ JustRan("subgoal_handler") /\ handler_g = "subgoal_handler"
    /\ input_pos = 0
    /\ display_value = Disp(DASH_C, 15, BLANK_C, 0)

----------------------------------------------------------------------------
(* The goal indices, checked under Spec *)

\* C24: whenever goals are fetched, current_goal = final_goal = 0, and
\* current_goal is always an index of the goal list; a NEXT_GOAL iteration
\* therefore always sets all_completed and goes to COMPLETE, and its branch
\* that advances current_goal and returns to MAIN is never taken.
C24_GoalIndices ==
    /\ current_goal \in 0..(NumGoals - 1)
    /\ st.fetched => (current_goal = 0 /\ final_goal = 0)
    /\ (pc = "handle" /\ handler_g = "next_goal_handler") => st.fetched
    /\ JustRan("next_goal_handler") =>
          /\ st.completed
          /\ handler_g = "complete_handler"
          /\ current_goal = 0
    /\ handler_g = "main_handler" => ran # "next_goal_handler"

\* NEXT_GOAL ran on the only goal there is and went to COMPLETE with four
\* dashes.
C24_Witness ==
    /\ JustRan("next_goal_handler")
    /\ st.fetched /\ st.completed
    /\ current_goal = final_goal /\ final_goal = 0
    /\ handler_g = "complete_handler"
    /\ display_value = Dashes

----------------------------------------------------------------------------
(* A second playthrough in which update_loc decodes no fix: the player
   stands at the goal in SUBGOAL, location_reached is true, and from now on
   only fetch_handler's own poll decodes a sentence.  location_reached is
   never computed again, so every MAIN iteration follows a fetch and finds
   the value that the playthrough before it left. *)

\* SUBGOAL has run at the goal, nothing entered yet.
InitNoFix ==
    /\ handler_g = "subgoal_handler"
    /\ ran = "subgoal_handler"
    /\ pc = "update_loc"
    /\ input_pos = 0
    /\ display_value = Prompt
    /\ distance = DST_TOLERANCE
    /\ current_goal = 0
    /\ final_goal = 0
    /\ goals = [g \in 0..(NumGoals - 1) |-> [i \in 0..3 |-> IF g = 0 THEN i ELSE 0]]
    /\ st = [satcon |-> TRUE, reached |-> TRUE, passwd |-> FALSE,
             fetched |-> TRUE, completed |-> FALSE, reset |-> FALSE,
             pos |-> FALSE, count |-> FALSE]
    /\ was_down = [i \in 0..2 |-> FALSE]
    /\ next_check = -1
    /\ last_update = "recent"
    /\ led = FALSE

\* update_loc whose poll window passes without a decoded sentence
update_loc_no_fix ==
    /\ pc = "update_loc"
    /\ \E elapsed \in Elapsed, expired \in BOOLEAN :
          /\ elapsed >= GPS_SERIAL_TIMEOUT
          /\ OneOfEach(FALSE, DST_TOLERANCE, FALSE, elapsed, expired)
          /\ update_loc_with(FALSE, DST_TOLERANCE, FALSE, elapsed, expired)
    /\ pc' = "update_buttons"
    /\ UNCHANGED <<handler_g, ran, input_pos, display_value, current_goal,
                   final_goal, goals, was_down, led>>

NextNoFix ==
    \/ update_loc_no_fix
    \/ update_buttons
    \/ main_handler
    \/ subgoal_handler
    \/ fetch_handler
    \/ next_goal_handler
    \/ complete_handler
    \/ satcon_handler

SpecNoFix == InitNoFix /\ [][NextNoFix]_vars

\* C25: after a successful fetch MAIN goes to SUBGOAL only on a
\* location_reached computed from a fix against the newly fetched goal; in
\* runs whose positioning refresh decodes no fix there is no such value, so
\* no MAIN iteration goes to SUBGOAL.
C25_NoStaleReached ==
    JustRan("main_handler") => handler_g # "subgoal_handler"

====
